---- MODULE Spec2Model ----
(***************************************************************************)
(* bench_collect_results.py: the benchmark driver (main, check_requirements,*)
(* run_benchmark) and the library resolver (find, find_no_symlink).         *)
(*                                                                          *)
(* Strings that the program concatenates (the output file, LD_PRELOAD,      *)
(* paths) are sequences of tokens; "" is the empty sequence, and string     *)
(* concatenation is \o.                                                     *)
(***************************************************************************)
EXTENDS Integers, Sequences, FiniteSets

\* ------------------------------------------------------------------ bounds
MaxImpls == 2        \* longest implementation list given on the command line
MaxThreads == 2      \* longest thread-count sequence given on the command line
MaxMissing == 2      \* most required files absent from the disk at once
MaxEntries == 3      \* most directory entries in the resolver's file system
MaxHops == 4         \* most passes of the resolver's loop that are followed

\* ------------------------------------------------------- program constants
internal_benchmark_util == "glibc-build/benchtests/bench-malloc-thread"

impl_preload_libs ==
    [ system_default   |-> "",
      glibc            |-> "",
      tcmalloc         |-> "tcmalloc-install/lib/libtcmalloc.so",
      jemalloc         |-> "jemalloc-install/lib/libjemalloc.so",
      fast_malloc_1MiB |-> "fast_malloc/build/libfast_malloc_1MiB.so",
      fast_malloc_1GiB |-> "fast_malloc/build/libfast_malloc_1GiB.so" ]

\* iteration order of the dict impl_preload_libs (insertion order)
ImplOrder ==
    << "system_default", "glibc", "tcmalloc", "jemalloc",
       "fast_malloc_1MiB", "fast_malloc_1GiB" >>

preload_required_libs == << "libstdc++.so.6", "libgcc_s.so.1" >>

benchmark_util ==
    [ system_default   |-> << internal_benchmark_util >>,
      glibc            |-> << "glibc-install/lib/ld-linux-x86-64.so.2",
                              "--library-path", "glibc-install/lib",
                              internal_benchmark_util >>,
      tcmalloc         |-> << internal_benchmark_util >>,
      jemalloc         |-> << internal_benchmark_util >>,
      fast_malloc_1MiB |-> << internal_benchmark_util >>,
      fast_malloc_1GiB |-> << internal_benchmark_util >> ]

EX_USAGE == 64       \* os.EX_USAGE
EXIT_MISSING == 2    \* sys.exit(2) of check_requirements
EXIT_UNKNOWN == 3    \* sys.exit(3) for an unknown implementation
EXIT_NO_SUCCESS == 1 \* sys.exit(1) when main returned 0
EXIT_OK == 0         \* the interpreter's status when the script falls off its end
EXIT_TRACEBACK == 1  \* the interpreter's status after an uncaught exception

\* ------------------------------------------------------------------ inputs
\* names an implementation list may hold: an implementation with no preload
\* library, one that needs the dependency libraries, one that does not, and a
\* name that is not in impl_preload_libs
ImplInputs == {"glibc", "tcmalloc", "fast_malloc_1MiB", "bogus"}
ThreadInputs == {"1", "2"}
\* what one successful benchmark invocation may print
Outputs == { <<"{r1}">>, <<"{r2}">> }
\* os.path.split(args[1])
OutArg == << "results", "out.json" >>

SeqsUpTo(S, n) == UNION { [1..k -> S] : k \in 0..n }

Range(s) == { s[k] : k \in 1..Len(s) }

\* the string s as a token sequence
Str(s) == IF s = "" THEN <<>> ELSE <<s>>

\* --------------------------------------------------------------- variables
VARIABLES
    pc,                 \* where the process is
    argv,               \* sys.argv[1:]
    isfile,             \* the paths for which os.path.isfile is true
    found,              \* reqlib -> what find_no_symlink(reqlib, roots) returns
    preload_required_libs_fullpaths,
    environ,            \* os.environ["LD_PRELOAD"]
    implementations_to_test,
    thread_values,
    idx,                \* position of main's loop in implementations_to_test
    success,            \* main's success
    outfile,            \* run_benchmark's outfile
    of,                 \* what has been written through run_benchmark's of
    rb_success,         \* run_benchmark's success
    last_nthreads,
    i,                  \* position of run_benchmark's loop in thread_values
    runs,               \* the invocations of this run_benchmark call, in order
    opened,             \* the output files opened so far
    launched,           \* number of benchmark commands handed to os.system
    checks,             \* number of executions of check_requirements
    counts,             \* the values run_benchmark has returned, in order
    diag,               \* the fatal diagnostic printed, if any
    returned,           \* <<v>> once main has returned v, <<>> before
    exitcode,           \* <<c>> once the process has exited with status c
    \* the library resolver
    fs,                 \* directory entry -> what it holds
    rpc,                \* where find_no_symlink is
    matching_filepath,
    hops,               \* number of passes of find_no_symlink's loop so far
    result              \* what find_no_symlink returned

drivervars ==
    << pc, argv, isfile, found, preload_required_libs_fullpaths, environ,
       implementations_to_test, thread_values, idx, success, outfile, of,
       rb_success, last_nthreads, i, runs, opened, launched, checks, counts,
       diag, returned, exitcode >>

resolvervars == << fs, rpc, matching_filepath, hops, result >>

vars == << drivervars, resolvervars >>

\* ------------------------------------------------------------ the driver

\* the resolver is not running while the driver is
ResolverIdle ==
    /\ fs = <<>>
    /\ rpc = "idle"
    /\ matching_filepath = <<>>
    /\ hops = 0
    /\ result = <<>>

\* the non-empty values of impl_preload_libs, in the dict's order
PreloadLibPaths ==
    LET nonempty(n) == impl_preload_libs[n] # ""
        names == SelectSeq(ImplOrder, nonempty)
    IN  [ k \in 1..Len(names) |-> impl_preload_libs[names[k]] ]

\* everything check_requirements looks for, in the order it looks
CheckOrderLibsFirst ==
    preload_required_libs \o PreloadLibPaths \o << internal_benchmark_util >>

CheckOrder ==
    << internal_benchmark_util >> \o PreloadLibPaths \o preload_required_libs

\* where a dependency library is when it is installed
InstalledPath ==
    [ l \in Range(preload_required_libs) |->
        IF l = "libstdc++.so.6"
        THEN "/usr/lib/x86_64-linux-gnu/libstdc++.so.6.0.30"
        ELSE "/usr/lib/x86_64-linux-gnu/libgcc_s.so.1" ]

\* the command lines the process may be started with
Argvs ==
    {<<>>}
    \cup { <<il>> : il \in SeqsUpTo(ImplInputs, MaxImpls) }
    \cup { <<il, OutArg>> \o tv : il \in SeqsUpTo(ImplInputs, MaxImpls),
                                  tv \in SeqsUpTo(ThreadInputs, MaxThreads) }

Init ==
    /\ pc = "main"
    /\ argv \in Argvs
    /\ \E missing \in SUBSET Range(CheckOrder) :
          /\ Cardinality(missing) <= MaxMissing
          /\ isfile = (Range(CheckOrder) \ Range(preload_required_libs)) \ missing
          /\ found = [ l \in Range(preload_required_libs) |->
                         IF l \in missing THEN "" ELSE InstalledPath[l] ]
    /\ preload_required_libs_fullpaths = <<>>
    /\ environ = <<>>
    /\ implementations_to_test = <<>>
    /\ thread_values = <<>>
    /\ idx = 1
    /\ success = 0
    /\ outfile = <<>>
    /\ of = <<>>
    /\ rb_success = 0
    /\ last_nthreads = ""
    /\ i = 1
    /\ runs = <<>>
    /\ opened = {}
    /\ launched = 0
    /\ checks = 0
    /\ counts = <<>>
    /\ diag = <<>>
    /\ returned = <<>>
    /\ exitcode = <<>>
    /\ ResolverIdle

\* sys.exit(code) after printing msg
Exit(code, msg) ==
    /\ pc' = "exit"
    /\ exitcode' = <<code>>
    /\ diag' = msg

\* main: too few arguments
MainUsage ==
    /\ pc = "main"
    /\ Len(argv) < 2
    /\ Exit(EX_USAGE, <<"Usage">>)
    /\ UNCHANGED << argv, isfile, found, preload_required_libs_fullpaths,
                    environ, implementations_to_test, thread_values, idx,
                    success, outfile, of, rb_success, last_nthreads, i, runs,
                    opened, launched, checks, counts, returned >>
    /\ UNCHANGED resolvervars

\* main: parse args
MainParse ==
    /\ pc = "main"
    /\ ~(Len(argv) < 2)
    /\ implementations_to_test' = argv[1]
    /\ thread_values' = SubSeq(argv, 3, Len(argv))
    /\ pc' = "check_requirements"
    /\ UNCHANGED << argv, isfile, found, preload_required_libs_fullpaths,
                    environ, idx, success, outfile, of, rb_success,
                    last_nthreads, i, runs, opened, launched, checks, counts,
                    diag, returned, exitcode >>
    /\ UNCHANGED resolvervars

\* whether check_requirements finds the item
Present(item) ==
    IF item \in Range(preload_required_libs)
    THEN found[item] # ""
    ELSE item \in isfile

\* the position in CheckOrder of the first item check_requirements does not
\* find, 0 when it finds them all
FirstMissingIn(order) ==
    IF \A k \in 1..Len(order) : Present(order[k])
    THEN 0
    ELSE CHOOSE k \in 1..Len(order) :
            /\ ~Present(order[k])
            /\ \A j \in 1..(k-1) : Present(order[j])

FirstMissing == FirstMissingIn(CheckOrder)

\* check_requirements: something is missing
CheckRequirementsFail ==
    /\ pc = "check_requirements"
    /\ FirstMissing # 0
    /\ checks' = checks + 1
    /\ Exit(EXIT_MISSING, <<"Could not find required", CheckOrder[FirstMissing]>>)
    /\ UNCHANGED << argv, isfile, found, preload_required_libs_fullpaths,
                    environ, implementations_to_test, thread_values, idx,
                    success, outfile, of, rb_success, last_nthreads, i, runs,
                    opened, launched, counts, returned >>
    /\ UNCHANGED resolvervars

\* check_requirements: everything is there
CheckRequirementsPass ==
    /\ pc = "check_requirements"
    /\ FirstMissing = 0
    /\ checks' = checks + 1
    /\ preload_required_libs_fullpaths' =
          preload_required_libs_fullpaths
          \o [ k \in 1..Len(preload_required_libs) |-> found[preload_required_libs[k]] ]
    /\ pc' = "main_loop"
    /\ UNCHANGED << argv, isfile, found, environ, implementations_to_test,
                    thread_values, idx, success, outfile, of, rb_success,
                    last_nthreads, i, runs, opened, launched, counts, diag,
                    returned, exitcode >>
    /\ UNCHANGED resolvervars

\* main: the next implementation is not in impl_preload_libs
MainUnknownImplementation ==
    /\ pc = "main_loop"
    /\ idx <= Len(implementations_to_test)
    /\ implementations_to_test[idx] \notin DOMAIN impl_preload_libs
    /\ Exit(EXIT_UNKNOWN, <<"Unknown settings", implementations_to_test[idx]>>)
    /\ UNCHANGED << argv, isfile, found, preload_required_libs_fullpaths,
                    environ, implementations_to_test, thread_values, idx,
                    success, outfile, of, rb_success, last_nthreads, i, runs,
                    opened, launched, checks, counts, returned >>
    /\ UNCHANGED resolvervars

\* os.path.join(outfile_path_prefix, implementation + '-' + outfile_postfix)
OutFile(implementation) ==
    << argv[2][1], "/", implementation, "-", argv[2][2] >>

\* main: the next implementation is known; call run_benchmark
MainCallRunBenchmark ==
    /\ pc = "main_loop"
    /\ idx <= Len(implementations_to_test)
    /\ implementations_to_test[idx] \in DOMAIN impl_preload_libs
    /\ outfile' = OutFile(implementations_to_test[idx])
    /\ pc' = "run_benchmark"
    /\ UNCHANGED << argv, isfile, found, preload_required_libs_fullpaths,
                    environ, implementations_to_test, thread_values, idx,
                    success, of, rb_success, last_nthreads, i, runs, opened,
                    launched, checks, counts, diag, returned, exitcode >>
    /\ UNCHANGED resolvervars

\* the implementation run_benchmark was called for
impl_name == implementations_to_test[idx]

\* run_benchmark up to its loop: the membership test, open, write('['),
\* success = 0, last_nthreads (an IndexError when thread_values is empty)
RunBenchmarkOpen ==
    /\ pc = "run_benchmark"
    /\ IF impl_name \notin DOMAIN impl_preload_libs
       THEN /\ Exit(EXIT_UNKNOWN, <<"Unknown settings", impl_name>>)
            /\ UNCHANGED << of, opened, rb_success, last_nthreads, i, runs >>
       ELSE /\ of' = <<"[">>
            /\ opened' = opened \cup {outfile}
            /\ rb_success' = 0
            /\ runs' = <<>>
            /\ IF Len(thread_values) = 0
               THEN /\ Exit(EXIT_TRACEBACK, <<"IndexError">>)
                    /\ UNCHANGED << last_nthreads, i >>
               ELSE /\ last_nthreads' = thread_values[Len(thread_values)]
                    /\ i' = 1
                    /\ pc' = "run_loop"
                    /\ UNCHANGED << diag, exitcode >>
    /\ UNCHANGED << argv, isfile, found, preload_required_libs_fullpaths,
                    environ, implementations_to_test, thread_values, idx,
                    success, outfile, launched, checks, counts, returned >>
    /\ UNCHANGED resolvervars

\* base + ':' + lib for each lib, in order
RECURSIVE AppendLibs(_, _)
AppendLibs(base, libs) ==
    IF Len(libs) = 0
    THEN base
    ELSE AppendLibs(base \o <<":">> \o Str(Head(libs)), Tail(libs))

\* os.environ["LD_PRELOAD"] as one pass of run_benchmark's loop leaves it
ComposePreloadAll(name, fullpaths) ==
    AppendLibs(Str(impl_preload_libs[name]), fullpaths)

ComposePreload(name, fullpaths) ==
    IF name \in {"tcmalloc", "jemalloc"}
    THEN AppendLibs(Str(impl_preload_libs[name]), fullpaths)
    ELSE Str(impl_preload_libs[name])

\* the command os.system is given, with the environment it inherits
Launch(nthreads) ==
    [ cmd        |-> benchmark_util[impl_name] \o <<nthreads>>,
      LD_PRELOAD |-> ComposePreload(impl_name, preload_required_libs_fullpaths) ]

\* of.write(stdout); if nthreads != last_nthreads: of.write(',')
WriteRun(f, stdout, nthreads, last) ==
    IF nthreads # last
    THEN f \o stdout \o <<",">>
    ELSE f \o stdout

\* one pass of the loop in which nothing raises: the command runs, its
\* captured output is read, written and counted
RunCounted(outcome, stdout) ==
    /\ pc = "run_loop"
    /\ i <= Len(thread_values)
    /\ LET nthreads == thread_values[i]
           written == WriteRun(of, stdout, nthreads, last_nthreads)
       IN  /\ environ' = Launch(nthreads).LD_PRELOAD
           /\ launched' = launched + 1
           /\ of' = written
           /\ rb_success' = rb_success + 1
           /\ runs' = Append(runs,
                  [ nthreads |-> nthreads, outcome |-> outcome,
                    stdout |-> stdout, launch |-> Launch(nthreads),
                    written |-> SubSeq(written, Len(of) + 1, Len(written)),
                    counted |-> TRUE ])
    /\ i' = i + 1
    /\ UNCHANGED << pc, argv, isfile, found, preload_required_libs_fullpaths,
                    implementations_to_test, thread_values, idx, success,
                    outfile, last_nthreads, opened, checks, counts, diag,
                    returned, exitcode >>
    /\ UNCHANGED resolvervars

\* the benchmark ran and printed its result
RunOk ==
    /\ pc = "run_loop"
    /\ \E stdout \in Outputs : RunCounted("ok", stdout)

\* the shell could not execute the benchmark: os.system returns its status
\* without raising, tee has left /tmp/benchmark-output empty
RunNotExecuted ==
    /\ pc = "run_loop"
    /\ RunCounted("not_executed", <<>>)

\* what the except clause leaves of the file
SkipRunWritesComma(f) == f \o <<",">>

SkipRun(f) == f

\* one pass of the loop in which reading /tmp/benchmark-output raises
\* OSError after os.system has returned: the except clause prints and the
\* loop goes on
RunOSError ==
    /\ pc = "run_loop"
    /\ i <= Len(thread_values)
    /\ LET nthreads == thread_values[i]
       IN  /\ environ' = Launch(nthreads).LD_PRELOAD
           /\ launched' = launched + 1
           /\ of' = SkipRun(of)
           /\ runs' = Append(runs,
                  [ nthreads |-> nthreads, outcome |-> "oserror",
                    stdout |-> <<>>, launch |-> Launch(nthreads),
                    written |-> SubSeq(SkipRun(of), Len(of) + 1, Len(SkipRun(of))),
                    counted |-> FALSE ])
    /\ i' = i + 1
    /\ UNCHANGED << pc, argv, isfile, found, preload_required_libs_fullpaths,
                    implementations_to_test, thread_values, idx, success,
                    outfile, rb_success, last_nthreads, opened, checks,
                    counts, diag, returned, exitcode >>
    /\ UNCHANGED resolvervars

\* of.write(']\n')
WriteClose(f) == f \o <<"]", "\n">>

\* run_benchmark after its loop: write(']\n'), return success
RunBenchmarkReturn ==
    /\ pc = "run_loop"
    /\ i > Len(thread_values)
    /\ of' = WriteClose(of)
    /\ pc' = "run_benchmark_returned"
    /\ UNCHANGED << argv, isfile, found, preload_required_libs_fullpaths,
                    environ, implementations_to_test, thread_values, idx,
                    success, outfile, rb_success, last_nthreads, i, runs,
                    opened, launched, checks, counts, diag, returned,
                    exitcode >>
    /\ UNCHANGED resolvervars

\* success = success + run_benchmark(...)
AccumulateLast(total, n) == n

Accumulate(total, n) == total + n

\* main: take run_benchmark's value and go on to the next implementation
MainAccumulate ==
    /\ pc = "run_benchmark_returned"
    /\ success' = Accumulate(success, rb_success)
    /\ counts' = Append(counts, rb_success)
    /\ idx' = idx + 1
    /\ pc' = "main_loop"
    /\ UNCHANGED << argv, isfile, found, preload_required_libs_fullpaths,
                    environ, implementations_to_test, thread_values, outfile,
                    of, rb_success, last_nthreads, i, runs, opened, launched,
                    checks, diag, returned, exitcode >>
    /\ UNCHANGED resolvervars

\* if success==0: sys.exit(1)
ExitStatus(s) == IF s = 0 THEN EXIT_NO_SUCCESS ELSE EXIT_OK

\* main returns success; the script exits on it
MainReturn ==
    /\ pc = "main_loop"
    /\ idx > Len(implementations_to_test)
    /\ returned' = <<success>>
    /\ pc' = "exit"
    /\ exitcode' = <<ExitStatus(success)>>
    /\ UNCHANGED << argv, isfile, found, preload_required_libs_fullpaths,
                    environ, implementations_to_test, thread_values, idx,
                    success, outfile, of, rb_success, last_nthreads, i, runs,
                    opened, launched, checks, counts, diag >>
    /\ UNCHANGED resolvervars

Next ==
    \/ MainUsage
    \/ MainParse
    \/ CheckRequirementsFail
    \/ CheckRequirementsPass
    \/ MainUnknownImplementation
    \/ MainCallRunBenchmark
    \/ RunBenchmarkOpen
    \/ RunOk
    \/ RunNotExecuted
    \/ RunOSError
    \/ RunBenchmarkReturn
    \/ MainAccumulate
    \/ MainReturn

Spec == Init /\ [][Next]_vars

\* ------------------------------------------------- claims about the driver

\* run_benchmark has written its whole file and is about to return
FileWritten == pc = "run_benchmark_returned"

InRunBenchmark == pc \in {"run_loop", "run_benchmark_returned"}

RECURSIVE JoinComma(_)
JoinComma(elements) ==
    IF Len(elements) = 0 THEN <<>>
    ELSE IF Len(elements) = 1 THEN elements[1]
    ELSE elements[1] \o <<",">> \o JoinComma(Tail(elements))

RECURSIVE Sum(_)
Sum(ns) == IF Len(ns) = 0 THEN 0 ELSE Head(ns) + Sum(Tail(ns))

AllRuns(outcomes) ==
    /\ Len(runs) = Len(thread_values)
    /\ \A k \in 1..Len(runs) : runs[k].outcome \in outcomes

RawOutputs == [ k \in 1..Len(runs) |-> runs[k].stdout ]

\* C1: when all K >= 1 runs succeed, whatever the thread-count values are
\* (repeated values included), the file is '[' + the K raw outputs in order
\* with one comma between adjacent outputs + ']' + newline.
C1_AllSucceedDocument ==
    (FileWritten /\ Len(thread_values) >= 1 /\ AllRuns({"ok"}))
        => of = <<"[">> \o JoinComma(RawOutputs) \o <<"]", "\n">>

\* a comma of the file that does not stand strictly between two elements
MisplacedComma(f) ==
    \E k \in 1..Len(f) :
        /\ f[k] = ","
        /\ \/ k = 1
           \/ k = Len(f)
           \/ f[k-1] \in {"[", ","}
           \/ f[k+1] \in {"]", ","}

\* C2: for every pattern of runs that succeed and runs that are skipped, no
\* comma of the written file follows the opening bracket, precedes the
\* closing bracket or follows another comma.
C2_CommasBetweenElements ==
    (FileWritten /\ AllRuns({"ok", "oserror"})) => ~MisplacedComma(of)

C4_FailedRunSkipped ==
    /\ \A k \in 1..Len(runs) :
          (InRunBenchmark /\ runs[k].outcome # "ok")
              => (runs[k].written = <<>> /\ ~runs[k].counted)
    /\ FileWritten =>
          /\ Len(runs) = Len(thread_values)
          /\ rb_success =
               Cardinality({ k \in 1..Len(runs) : runs[k].outcome = "ok" })

UnknownRequested ==
    \E k \in 1..Len(implementations_to_test) :
        implementations_to_test[k] \notin DOMAIN impl_preload_libs

\* C5: if any requested name, at any position, is unknown, no benchmark run
\* of any implementation is executed and the process exits with code 3
\* (stated for command lines that give thread counts, on a disk that has
\* every required file).
C5_UnknownBeforeAnyRun ==
    (UnknownRequested /\ Len(thread_values) >= 1 /\ FirstMissing = 0)
        => /\ launched = 0
           /\ pc = "exit" => exitcode = <<EXIT_UNKNOWN>>

\* what check_requirements looks for first (1), second (2) and last (3)
CheckClass(item) ==
    IF item = "glibc-build/benchtests/bench-malloc-thread" THEN 1
    ELSE IF item \in {"libstdc++.so.6", "libgcc_s.so.1"} THEN 3
    ELSE 2

RequiredItems ==
    { "glibc-build/benchtests/bench-malloc-thread",
      "tcmalloc-install/lib/libtcmalloc.so",
      "jemalloc-install/lib/libjemalloc.so",
      "fast_malloc/build/libfast_malloc_1MiB.so",
      "fast_malloc/build/libfast_malloc_1GiB.so",
      "libstdc++.so.6", "libgcc_s.so.1" }

MissingItems == { item \in RequiredItems : ~Present(item) }

\* C6: in a process whose command line is accepted, check_requirements runs
\* exactly once and before the first benchmark run; if the executable, a
\* configured preload library or a dependency library is missing, the
\* process exits with code 2 naming a missing item that no missing item
\* precedes in the check order, and no run is executed and no output file
\* is opened.
C6_RequirementGate ==
    /\ checks <= 1
    /\ (launched > 0 \/ opened # {}) => checks = 1
    /\ MissingItems # {} => (launched = 0 /\ opened = {})
    /\ (pc = "exit" /\ Len(argv) >= 2) => checks = 1
    /\ (pc = "exit" /\ Len(argv) >= 2 /\ MissingItems # {}) =>
          /\ exitcode = <<EXIT_MISSING>>
          /\ Len(diag) = 2
          /\ diag[2] \in MissingItems
          /\ \A other \in MissingItems : CheckClass(diag[2]) <= CheckClass(other)

C6_Witness ==
    /\ pc = "exit"
    /\ exitcode = <<EXIT_MISSING>>
    /\ checks = 1
    /\ MissingItems = { "jemalloc-install/lib/libjemalloc.so", "libgcc_s.so.1" }
    /\ diag[2] = "jemalloc-install/lib/libjemalloc.so"
    /\ launched = 0
    /\ opened = {}

\* C7: when the requirement check passes and every requested implementation
\* is known, main returns the sum of the values run_benchmark returned, one
\* per requested implementation, and the exit code is 1 exactly when that
\* sum is zero and 0 exactly when it is at least one.
C7_ExitReflectsTotal ==
    (pc = "exit" /\ checks = 1 /\ MissingItems = {} /\ ~UnknownRequested) =>
        /\ (Len(thread_values) >= 1 \/ Len(implementations_to_test) = 0) =>
              /\ returned = << Sum(counts) >>
              /\ Len(counts) = Len(implementations_to_test)
        /\ returned # <<>> => returned = << Sum(counts) >>
        /\ exitcode = <<1>> <=> Sum(counts) = 0
        /\ exitcode = <<0>> <=> Sum(counts) >= 1

C7_Witness ==
    /\ pc = "exit"
    /\ Len(counts) = 2
    /\ counts[1] = 2
    /\ counts[2] = 1
    /\ returned = <<3>>
    /\ exitcode = <<0>>

\* C8: whenever the implementation list, the output path or the thread
\* counts are missing from the command line, main prints the usage message
\* and exits with os.EX_USAGE, and the requirement check is not run, no
\* output file is opened and no benchmark run is executed.
C8_MissingArgumentUsage ==
    Len(argv) < 3 =>
        /\ checks = 0
        /\ opened = {}
        /\ launched = 0
        /\ pc = "exit" => (exitcode = <<EX_USAGE>> /\ diag = <<"Usage">>)

\* the LD_PRELOAD value the claim gives for an implementation
ExpectedPreload(name) ==
    IF name = "tcmalloc"
    THEN << "tcmalloc-install/lib/libtcmalloc.so",
            ":", found["libstdc++.so.6"], ":", found["libgcc_s.so.1"] >>
    ELSE IF name = "jemalloc"
    THEN << "jemalloc-install/lib/libjemalloc.so",
            ":", found["libstdc++.so.6"], ":", found["libgcc_s.so.1"] >>
    ELSE IF name = "fast_malloc_1MiB"
    THEN << "fast_malloc/build/libfast_malloc_1MiB.so" >>
    ELSE IF name = "fast_malloc_1GiB"
    THEN << "fast_malloc/build/libfast_malloc_1GiB.so" >>
    ELSE <<>>

\* a colon-separated list without an empty element
NoEmptyElement(ld) ==
    \/ ld = <<>>
    \/ /\ ld[1] # ":"
       /\ ld[Len(ld)] # ":"
       /\ \A k \in 1..(Len(ld) - 1) : ~(ld[k] = ":" /\ ld[k+1] = ":")

\* C9: at every launch of the benchmark command LD_PRELOAD is the
\* implementation's own preload path, followed for tcmalloc and jemalloc
\* only by ':' and each resolved dependency path in the order of
\* preload_required_libs; it is the same for all thread counts of the
\* implementation and has no empty element.
C9_PreloadValue ==
    /\ InRunBenchmark =>
          /\ \A k \in 1..Len(runs) :
                /\ runs[k].launch.LD_PRELOAD = ExpectedPreload(impl_name)
                /\ NoEmptyElement(runs[k].launch.LD_PRELOAD)
          /\ \A j, k \in 1..Len(runs) :
                runs[j].launch.LD_PRELOAD = runs[k].launch.LD_PRELOAD
          /\ Len(runs) >= 1 => environ = ExpectedPreload(impl_name)
    /\ pc \in {"main_loop", "run_benchmark", "run_loop"} =>
          \A name \in DOMAIN impl_preload_libs :
              /\ ComposePreload(name, preload_required_libs_fullpaths)
                    = ExpectedPreload(name)
              /\ NoEmptyElement(ComposePreload(name, preload_required_libs_fullpaths))

C9_Witness ==
    /\ FileWritten
    /\ impl_name = "tcmalloc"
    /\ Len(runs) = 2
    /\ runs[1].nthreads # runs[2].nthreads
    /\ runs[1].launch.LD_PRELOAD =
          << "tcmalloc-install/lib/libtcmalloc.so",
             ":", "/usr/lib/x86_64-linux-gnu/libstdc++.so.6.0.30",
             ":", "/usr/lib/x86_64-linux-gnu/libgcc_s.so.1" >>
    /\ runs[2].launch.LD_PRELOAD = runs[1].launch.LD_PRELOAD

\* ---------------------------------------------------- the library resolver
\* A path is the sequence of its components; an absolute path starts with
\* "/".  os.path.join and os.path.dirname work on the components as they
\* stand; the file system resolves a path component by component.

\* the directories of the file system
Dirs ==
    { <<"/">>, <<"/", "usr">>, <<"/", "usr", "lib">>,
      <<"/", "usr", "lib", "x86_64-linux-gnu">>, <<"/", "lib">> }

\* the directories that may hold libraries
LibDirs ==
    { <<"/", "usr", "lib">>, <<"/", "usr", "lib", "x86_64-linux-gnu">>,
      <<"/", "lib">> }

SearchName == "libstdc++.so.6"

SearchRoots == << <<"/", "usr", "lib">>, <<"/", "lib">>, <<"/", "lib64">> >>

FileNames == { SearchName, "libstdc++.so.6.0.30" }

\* a directory entry: the directory it is in and its name
Entries == LibDirs \X FileNames

\* what a symbolic link may hold
LinkTargets ==
    UNION { { <<n>>, <<"x86_64-linux-gnu", n>>, <<"..", n>>, <<"/", "lib", n>> }
            : n \in FileNames }

Absent == [ kind |-> "absent", target |-> <<>> ]
RegularFile == [ kind |-> "file", target |-> <<>> ]
SymLink(t) == [ kind |-> "link", target |-> t ]

Contents == { Absent, RegularFile } \cup { SymLink(t) : t \in LinkTargets }

FileSystems ==
    { f \in [Entries -> Contents] :
        Cardinality({ e \in Entries : f[e] # Absent }) <= MaxEntries }

\* the driver is not running while the resolver is
DriverIdle ==
    /\ pc = "resolver"
    /\ argv = <<>>
    /\ isfile = {}
    /\ found = <<>>
    /\ preload_required_libs_fullpaths = <<>>
    /\ environ = <<>>
    /\ implementations_to_test = <<>>
    /\ thread_values = <<>>
    /\ idx = 1
    /\ success = 0
    /\ outfile = <<>>
    /\ of = <<>>
    /\ rb_success = 0
    /\ last_nthreads = ""
    /\ i = 1
    /\ runs = <<>>
    /\ opened = {}
    /\ launched = 0
    /\ checks = 0
    /\ counts = <<>>
    /\ diag = <<>>
    /\ returned = <<>>
    /\ exitcode = <<>>

NoDir == <<>>

ParentDir(d) == IF Len(d) <= 1 THEN d ELSE SubSeq(d, 1, Len(d) - 1)

\* the directory the file system reaches from directory d by the components
\* comps, NoDir when a component is not a directory
RECURSIVE WalkDir(_, _)
WalkDir(d, comps) ==
    IF d = NoDir \/ Len(comps) = 0 THEN d
    ELSE IF Head(comps) = ".." THEN WalkDir(ParentDir(d), Tail(comps))
    ELSE IF (d \o <<Head(comps)>>) \in Dirs
         THEN WalkDir(d \o <<Head(comps)>>, Tail(comps))
         ELSE NoDir

\* the entry the file system finds for the path p taken from directory d
\* (d is ignored when p is absolute), without following a final link
EntryAt(d, p) ==
    LET start == IF p[1] = "/" THEN <<"/">> ELSE d
        inner == IF p[1] = "/" THEN SubSeq(p, 2, Len(p) - 1)
                               ELSE SubSeq(p, 1, Len(p) - 1)
    IN  << WalkDir(start, inner), p[Len(p)] >>

\* what lstat sees at the entry e
Lstat(e) == IF e \in Entries THEN fs[e] ELSE Absent

\* os.path.islink(path), os.readlink(path)
islink(path) == Lstat(EntryAt(<<"/">>, path)).kind = "link"

readlink(path) == Lstat(EntryAt(<<"/">>, path)).target

\* os.path.dirname(path)
dirname(path) == SubSeq(path, 1, Len(path) - 1)

\* os.path.join(a, b)
join(a, b) == IF b[1] = "/" THEN b ELSE a \o b

\* the sequences made of the members of the set S, each once
RECURSIVE SeqOfSet(_)
SeqOfSet(S) ==
    IF S = {} THEN <<>>
    ELSE LET x == CHOOSE x \in S : TRUE IN <<x>> \o SeqOfSet(S \ {x})

RECURSIVE Concat(_)
Concat(ss) == IF Len(ss) = 0 THEN <<>> ELSE Head(ss) \o Concat(Tail(ss))

SubDirs(d) ==
    { c \in Dirs : Len(c) = Len(d) + 1 /\ SubSeq(c, 1, Len(d)) = d }

\* the directories os.walk(top, followlinks=False) yields, in order
RECURSIVE walk(_)
walk(top) ==
    IF top \notin Dirs THEN <<>>
    ELSE LET subs == SeqOfSet(SubDirs(top))
         IN  <<top>> \o Concat([ k \in 1..Len(subs) |-> walk(subs[k]) ])

\* find(name, paths)
find(name, paths) ==
    LET roots == Concat([ k \in 1..Len(paths) |-> walk(paths[k]) ])
        hits == { k \in 1..Len(roots) : fs[<<roots[k], name>>] # Absent }
    IN  IF hits = {} THEN <<>>
        ELSE LET first == CHOOSE k \in hits : \A j \in hits : k <= j
             IN  join(roots[first], <<name>>)

RInit ==
    /\ fs \in FileSystems
    /\ rpc = "find"
    /\ matching_filepath = <<>>
    /\ hops = 0
    /\ result = <<>>
    /\ DriverIdle

\* find_no_symlink: nothing is found
FindNothing ==
    /\ rpc = "find"
    /\ Len(find(SearchName, SearchRoots)) = 0
    /\ matching_filepath' = find(SearchName, SearchRoots)
    /\ result' = <<>>
    /\ rpc' = "done"
    /\ UNCHANGED << fs, hops >>
    /\ UNCHANGED drivervars

\* find_no_symlink: a match is found
FindMatch ==
    /\ rpc = "find"
    /\ Len(find(SearchName, SearchRoots)) # 0
    /\ matching_filepath' = find(SearchName, SearchRoots)
    /\ rpc' = "while"
    /\ UNCHANGED << fs, hops, result >>
    /\ UNCHANGED drivervars

\* the body of the while loop
NextPathNoDirname(path) == join(path, readlink(path))

NextPath(path) == join(dirname(path), readlink(path))

\* find_no_symlink: one pass of the while loop
Dereference ==
    /\ rpc = "while"
    /\ islink(matching_filepath)
    /\ hops < MaxHops
    /\ matching_filepath' = NextPath(matching_filepath)
    /\ hops' = hops + 1
    /\ UNCHANGED << fs, rpc, result >>
    /\ UNCHANGED drivervars

\* find_no_symlink: the path is no link; return it
ReturnPath ==
    /\ rpc = "while"
    /\ ~islink(matching_filepath)
    /\ result' = matching_filepath
    /\ rpc' = "done"
    /\ UNCHANGED << fs, matching_filepath, hops >>
    /\ UNCHANGED drivervars

RNext ==
    \/ FindNothing
    \/ FindMatch
    \/ Dereference
    \/ ReturnPath

ResolverSpec == RInit /\ [][RNext]_vars

\* ----------------------------------------------- claims about the resolver

\* the directories the search visits, in order
SearchOrder ==
    Concat([ k \in 1..Len(SearchRoots) |-> walk(SearchRoots[k]) ])

\* the first entry named SearchName in the order of the search, <<>> if none
HeadEntry ==
    LET hits == { k \in 1..Len(SearchOrder) :
                    fs[<<SearchOrder[k], SearchName>>] # Absent }
    IN  IF hits = {} THEN <<>>
        ELSE << SearchOrder[CHOOSE k \in hits : \A j \in hits : k <= j],
                SearchName >>

\* the chain of links the file system follows from the entry e: the entries
\* it passes, ending with <<>> when the chain breaks or does not end
RECURSIVE Chain(_, _)
Chain(e, fuel) ==
    IF Lstat(e).kind = "file" THEN <<e>>
    ELSE IF Lstat(e).kind = "absent" \/ fuel = 0 THEN << <<>> >>
    ELSE <<e>> \o Chain(EntryAt(e[1], Lstat(e).target), fuel - 1)

HeadChain ==
    IF HeadEntry = <<>> THEN << <<>> >>
    ELSE Chain(HeadEntry, Cardinality(Entries))

\* the chain ends at a regular file
EndsAtFile(chain) == chain[Len(chain)] # <<>>

\* find_no_symlink has returned a path of the file that ends the chain
ReturnedEndOf(chain) ==
    /\ rpc = "done"
    /\ Len(result) > 0
    /\ EntryAt(<<"/">>, result) = chain[Len(chain)]
    /\ Lstat(EntryAt(<<"/">>, result)).kind = "file"

\* find_no_symlink has a next step to take: the guards of RNext
CanStep ==
    \/ rpc = "find"
    \/ rpc = "while" /\ islink(matching_filepath) /\ hops < MaxHops
    \/ rpc = "while" /\ ~islink(matching_filepath)

\* C10: whenever the first entry found heads a chain of N >= 0 links that
\* ends at a regular file, find_no_symlink terminates (its loop makes at
\* most N passes and is never stuck before it returns) and returns a path
\* of that file, relative targets being taken from the directory of the
\* link.
C10_ResolvesChain ==
    LET chain == HeadChain
        N == Len(chain) - 1
    IN  EndsAtFile(chain) =>
            /\ hops <= N
            /\ rpc # "done" => CanStep
            /\ rpc = "while" =>
                  EntryAt(<<"/">>, matching_filepath) = chain[hops + 1]
            /\ rpc = "done" => (ReturnedEndOf(chain) /\ hops = N)

C10_Witness ==
    LET chain == HeadChain
    IN  /\ EndsAtFile(chain)
        /\ Len(chain) - 1 = 2
        /\ fs[chain[1]].target = <<"x86_64-linux-gnu", "libstdc++.so.6">>
        /\ fs[chain[2]].target = <<"..", "libstdc++.so.6.0.30">>
        /\ ReturnedEndOf(chain)

====
